---------------------------- MODULE Spec2Model ----------------------------
(***************************************************************************)
(* A model of the Playwright test runner (runner.py): discovery of the     *)
(* scripts, the textual patch of each script file, the concurrent          *)
(* per-script tasks (spawn, communicate, harvest of screenshots, append    *)
(* to the results list), the result document on disk and the exit code     *)
(* of the controller process.                                              *)
(*                                                                         *)
(* Text is modelled at the granularity the code looks at it:               *)
(*   - a script file's content is a sequence of text fragments; the        *)
(*     literals that str.replace and the `in` tests of                     *)
(*     ensure_headless_mode look for are fragments of their own;           *)
(*   - a file stem is the sequence of its "_"-separated segments, which    *)
(*     is what split('_') and the glob "<name>_*.png" decide on.           *)
(* Console output (print) is assumed not to fail.                          *)
(***************************************************************************)
EXTENDS Integers, Sequences, FiniteSets, TLC

VARIABLES
    scriptsDir,      \* the scripts directory: whether it exists, and its files
    fileContent,     \* content of each file of the scripts directory
    screenshotsDir,  \* the files of the screenshots directory
    document,        \* test_results.json on disk
    runs,            \* number of controller processes started so far
    pc,              \* position of the controller process
    exitCode,        \* exit status of the controller process (<< >> while it runs)
    script_files,    \* run_all_scripts: the list glob returned
    task,            \* position of each per-script coroutine
    proc,            \* the subprocess of each script
    results,         \* TestRunner.results
    exitOrder,       \* history: scripts in the order their subprocesses exited
    exitSeen,        \* history: the scripts already recorded when a subprocess exited
    reported,        \* the run-level message the controller printed last
    saved,           \* history: per finished save_results, the results it wrote
    patchTrace,      \* history: the outcomes of ensure_headless_mode, per file
    environ          \* os.environ of the controller process

vars == << scriptsDir, fileContent, screenshotsDir, document, runs, pc, exitCode,
           script_files, task, proc, results, exitOrder, exitSeen, reported,
           saved, patchTrace, environ >>

---------------------------------------------------------------------------
(* Bounds of the model.                                                    *)

MaxLen == 3          \* fragments in a script file drawn by PatchInit
MaxPatches == 2      \* applications of the patch to one file under PatchSpec
MaxRuns == 2         \* controller processes started one after the other
MaxWrites == 1       \* screenshot files one subprocess writes
MaxHarvests == 1     \* calls of collect_screenshots under HarvestSpec

---------------------------------------------------------------------------
(* Sequences.                                                              *)

Range(s) == { s[i] : i \in 1..Len(s) }

SeqsUpTo(S, n) == UNION { [1..k -> S] : k \in 0..n }

IsPrefix(p, s) == Len(p) <= Len(s) /\ SubSeq(s, 1, Len(p)) = p

---------------------------------------------------------------------------
(* Script text: runner.py lines 29-90.                                     *)

HeadlessFalse1 == "headless=False"
HeadlessTrue1 == "headless=True"
HeadlessFalse2 == "headless = False"
HeadlessTrue2 == "headless = True"
HeadlessFalse3 == "\"headless\": false"
HeadlessTrue3 == "\"headless\": true"
HeadlessFalse4 == "'headless': False"
HeadlessTrue4 == "'headless': True"
AsyncDef == "async def"
Playwright == "playwright"
NewPage == "page = await browser.new_page()"
Goto == "await page.goto("
BrowserClose == "await browser.close()"
ImportDatetime == "from datetime import datetime\n"
ImportPath == "from pathlib import Path\n"
CapturePageLoad == "await capture_screenshot(\"page_load\")\n        "
CaptureFinalState == "await capture_screenshot(\"final_state\")\n        "
OtherText == "print('done')"

\* The block inserted after the page creation; it defines capture_screenshot
\* with "async def" and names no other literal the patch looks for.
screenshot_code == "# Auto-screenshot capture ... async def capture_screenshot(step_name): ..."

\* The fragments a script's author may have written.
AuthorFragments ==
    { HeadlessFalse1, HeadlessTrue1, HeadlessFalse2, HeadlessFalse3,
      HeadlessFalse4, AsyncDef, Playwright, NewPage, Goto, BrowserClose, ImportDatetime,
      OtherText }

\* str.replace(old, new) with old one fragment and new a sequence of fragments
RECURSIVE Replace(_, _, _)
Replace(content, old, new) ==
    IF content = << >> THEN << >>
    ELSE (IF Head(content) = old THEN new ELSE << Head(content) >>)
         \o Replace(Tail(content), old, new)

\* `literal in content`
Contains(content, literal) ==
    \E i \in 1..Len(content) :
        \/ content[i] = literal
        \/ literal = AsyncDef /\ content[i] = screenshot_code

\* lines 37-40
ReplaceHeadless(content) ==
    Replace(Replace(Replace(Replace(content,
        HeadlessFalse1, << HeadlessTrue1 >>),
        HeadlessFalse2, << HeadlessTrue2 >>),
        HeadlessFalse3, << HeadlessTrue3 >>),
        HeadlessFalse4, << HeadlessTrue4 >>)

\* lines 64-77
InsertCapture(content) ==
    Replace(Replace(Replace(content,
        NewPage, << NewPage, screenshot_code >>),
        Goto, << CapturePageLoad, Goto >>),
        BrowserClose, << CaptureFinalState, BrowserClose >>)

\* lines 80-81
AddImports(content) ==
    IF Contains(content, ImportDatetime) THEN content
    ELSE << ImportDatetime, ImportPath >> \o content

\* lines 43-81
AddScreenshotCapture(content) ==
    IF Contains(content, AsyncDef) /\ Contains(content, Playwright)
       /\ Contains(content, NewPage)
    THEN AddImports(InsertCapture(content))
    ELSE content

\* lines 36-81: the content ensure_headless_mode computes from the content read
PatchedContent(original_content) ==
    AddScreenshotCapture(ReplaceHeadless(original_content))

\* The file after open(script_path, 'w') succeeded and the write did not
\* complete: 'w' truncates, and any prefix of the text may have reached the
\* file.
Truncated(content) == { SubSeq(content, 1, k) : k \in 0..(Len(content) - 1) }

\* Mutant: the file is written back whether or not the content changed.
ensure_headless_mode_always_writes(original_content) ==
    LET content == PatchedContent(original_content) IN
    { [outcome |-> "read_failed", wrote |-> FALSE, content |-> original_content],
      [outcome |-> "patched", wrote |-> TRUE, content |-> content],
      [outcome |-> "open_failed", wrote |-> FALSE, content |-> original_content] }
    \cup { [outcome |-> "write_failed", wrote |-> TRUE, content |-> t] :
           t \in Truncated(content) }

\* lines 29-90: what one call can leave in the file. Every exception is caught
\* (line 89), so the call always returns.
ensure_headless_mode(original_content) ==
    LET content == PatchedContent(original_content) IN
    \* line 32: the file cannot be read
    { [outcome |-> "read_failed", wrote |-> FALSE, content |-> original_content] }
    \cup
    (IF content # original_content
     THEN \* lines 85-86
          { [outcome |-> "patched", wrote |-> TRUE, content |-> content],
            [outcome |-> "open_failed", wrote |-> FALSE,
             content |-> original_content] }
          \cup { [outcome |-> "write_failed", wrote |-> TRUE, content |-> t] :
                 t \in Truncated(content) }
     ELSE { [outcome |-> "unchanged", wrote |-> FALSE,
             content |-> original_content] })

---------------------------------------------------------------------------
(* Files. A file of the scripts directory is its stem (the "_"-separated   *)
(* segments) and its extension; Path.stem of a script is its script_name.  *)

Demo == [stem |-> << "demo" >>, ext |-> "py"]
DemoExtra == [stem |-> << "demo", "extra" >>, ext |-> "py"]
RunnerEntry == [stem |-> << "runner" >>, ext |-> "py"]
Notes == [stem |-> << "notes" >>, ext |-> "txt"]

AllFiles == { Demo, DemoExtra, RunnerEntry, Notes }

NoDirectory == [exists |-> FALSE, files |-> {}]

\* The scripts directories the model starts from: missing, empty, without
\* any script, with one script, and with two.
Directories ==
    { NoDirectory }
    \cup { [exists |-> TRUE, files |-> S] :
           S \in { {}, { Notes }, { Demo }, { RunnerEntry },
                    { Demo, DemoExtra }, { DemoExtra, RunnerEntry, Notes } } }

\* The text each script file starts with: one the patch rewrites, one it
\* leaves alone.
InitialText(f) ==
    IF f = Demo THEN << HeadlessFalse1 >> ELSE << OtherText >>

\* line 302: scripts_dir.glob("*.py"), as a set
GlobPy(dir) == { f \in dir : f.ext = "py" }

\* The lists a glob can return for a set of files: the order is the
\* directory's, which the code does not control.
Orderings(S) ==
    { q \in [1..Cardinality(S) -> S] : \A i, j \in 1..Cardinality(S) :
                                          i # j => q[i] # q[j] }

---------------------------------------------------------------------------
(* Screenshots: runner.py lines 126-155.                                   *)

Steps == { << "step1" >> }
Timestamps == { "1200" }

\* The modification times a file written during run r can get: the clock
\* is coarse enough for two writes of one run to collide, and later runs
\* write later.
Ticks(r) == { 2 * r - 1, 2 * r }

\* The file a script writes under its own identity:
\* <script_name>_<step>_<timestamp>.png
ArtifactStem(f, step, ts) == f.stem \o step \o << ts >>

\* line 130: glob(f"{script_name}_*.png") on the stem of a .png file
MatchesGlob(script_name, stem) ==
    Len(stem) > Len(script_name) /\ IsPrefix(script_name, stem)

\* lines 137-138
StepName(stem) ==
    IF Len(stem) > 2 THEN SubSeq(stem, 2, Len(stem) - 1) ELSE << "unknown" >>

\* lines 140-145
ScreenshotEntry(file) ==
    [ step_name |-> StepName(file.stem),
      filename  |-> file.stem,
      data      |-> << "base64", file.data >>,
      timestamp |-> file.mtime ]

\* line 150: list.sort(key=timestamp) is stable, so entries of equal
\* timestamp stay in the order the glob yielded them.
SortedByTimestamp(q) ==
    \A i, j \in 1..Len(q) : i < j => q[i].timestamp <= q[j].timestamp

\* Mutant: only the files written during the current run are looked at.
MatchingThisRun(script_name, dir) ==
    { file \in dir : MatchesGlob(script_name, file.stem)
                     /\ file.data[2] = runs }

\* line 130: the files glob(f"{script_name}_*.png") yields
Matching(script_name, dir) ==
    { file \in dir : MatchesGlob(script_name, file.stem) }

\* lines 131-150: the lists built from the files that could be read
SortedLists(readable) ==
    { q \in Orderings({ ScreenshotEntry(file) : file \in readable }) :
        SortedByTimestamp(q) }

\* lines 126-155: the lists one call can return. A file that cannot be read
\* is skipped (line 146); the rest is sorted by timestamp.
collect_screenshots(script_name, dir) ==
    UNION { SortedLists(readable) :
            readable \in SUBSET Matching(script_name, dir) }

---------------------------------------------------------------------------
(* Subprocesses and records: runner.py lines 157-281.                      *)

\* Captured output that is not valid UTF-8.
Undecodable == "\\xff"

\* How a script's subprocess can end: its return code (negative when a
\* signal killed it) and the bytes it left on stdout and stderr.
Behaviours ==
    { [returncode |-> 0, stdout |-> "done", stderr |-> ""],
      [returncode |-> 1, stdout |-> "", stderr |-> "boom"],
      [returncode |-> 0, stdout |-> Undecodable, stderr |-> ""],
      [returncode |-> -1, stdout |-> "", stderr |-> ""] }

\* str(e) of the exceptions the try block of run_single_script can raise
SpawnError == "[Errno 2] No such file or directory"
CommunicateError == "[Errno 5] Input/output error"
DecodeError == "'utf-8' codec can't decode byte 0xff"

NoError == "<no 'error' key>"
Passed == "PASSED"
Failed == "FAILED"
Error == "ERROR"

\* lines 219-233
Result(f, returncode, stdout_text, stderr_text, screenshots) ==
    [ script      |-> f.stem,
      status      |-> IF returncode = 0 THEN Passed ELSE Failed,
      success     |-> (returncode = 0),
      return_code |-> returncode,
      stdout      |-> stdout_text,
      stderr      |-> stderr_text,
      screenshots |-> screenshots,
      error       |-> NoError ]

\* Mutant: the except branch records the error without its cause.
ErrorResultWithoutCause(f, e) ==
    [ script      |-> f.stem,
      status      |-> Error,
      success     |-> FALSE,
      return_code |-> -1,
      stdout      |-> "",
      stderr      |-> "",
      screenshots |-> << >>,
      error       |-> "" ]

\* lines 261-273
ErrorResult(f, e) ==
    [ script      |-> f.stem,
      status      |-> Error,
      success     |-> FALSE,
      return_code |-> -1,
      stdout      |-> "",
      stderr      |-> e,
      screenshots |-> << >>,
      error       |-> e ]

---------------------------------------------------------------------------
(* The environment of the subprocess: runner.py lines 171-179 and 203.     *)
(* A value is a path, the sequence of its segments from the root "/"; the  *)
(* empty string is the empty sequence.                                     *)

EmptyString == << >>
Root == << "/" >>
UserHome == << "/", "home", "ci" >>
PasswdHome == << "/", "root" >>
ParentBrowsersPath == << "/", "opt", "browsers" >>
SearchPath == << "/", "usr", "bin" >>

\* The environments the controller can be started in: HOME unset, empty or
\* set; PLAYWRIGHT_BROWSERS_PATH unset or set; PATH set.
Environments ==
    { [v \in D |-> CASE v = "HOME" -> h
                     [] v = "PLAYWRIGHT_BROWSERS_PATH" -> ParentBrowsersPath
                     [] OTHER -> SearchPath] :
      D \in { S \cup { "PATH" } : S \in SUBSET { "HOME", "PLAYWRIGHT_BROWSERS_PATH" } },
      h \in { EmptyString, UserHome } }

DefaultEnviron == [v \in { "HOME", "PATH" } |->
                     IF v = "HOME" THEN UserHome ELSE SearchPath]

\* line 175: os.path.expanduser("~") is $HOME when HOME is in the
\* environment ("/" when it is empty) and the home of the passwd entry
\* otherwise
ExpandUser(env) ==
    IF "HOME" \in DOMAIN env
    THEN (IF env["HOME"] = EmptyString THEN Root ELSE env["HOME"])
    ELSE PasswdHome

\* lines 174-175
Home(env) ==
    IF "HOME" \notin DOMAIN env \/ env["HOME"] = EmptyString
    THEN ExpandUser(env) ELSE env["HOME"]

\* line 178: os.path.join(env["HOME"], ".cache", "ms-playwright")
BrowserPath(home) == home \o << ".cache", "ms-playwright" >>

\* lines 171-179: the env passed to create_subprocess_exec
ChildEnv(env) ==
    [v \in DOMAIN env \cup { "HOME", "PLAYWRIGHT_BROWSERS_PATH" } |->
        CASE v = "HOME" -> Home(env)
          [] v = "PLAYWRIGHT_BROWSERS_PATH" -> BrowserPath(Home(env))
          [] OTHER -> env[v]]

NoProc == [state |-> "none", returncode |-> 0, stdout |-> "", stderr |-> "",
           text |-> << >>, writes |-> 0, env |-> << >>, skipped |-> {}]

Discovered == Range(script_files)

\* Mutant: gather returns as soon as one coroutine has ended.
SomeJoined == \E f \in Discovered : task[f] = "done"

\* line 319: gather returns when every coroutine has ended
AllJoined == \A f \in Discovered : task[f] = "done"

\* Mutant: the record is put at the head of the list.
PrependResult(r) == results' = << r >> \o results

\* Mutant: the except branch builds its record and does not append it.
AppendResultUnlessError(r) ==
    results' = IF r.status = Error THEN results ELSE Append(results, r)

\* line 235 and line 275: self.results.append(...)
AppendResult(r) == results' = Append(results, r)

---------------------------------------------------------------------------
(* The controller: runner.py lines 283-418.                                *)

NoDocument == [kind |-> "absent", total_scripts |-> 0, passed |-> 0,
               failed |-> 0, results |-> << >>]

CountPassed(rs) == Cardinality({ i \in 1..Len(rs) : rs[i].success })
CountFailed(rs) == Cardinality({ i \in 1..Len(rs) : ~rs[i].success })

\* lines 340-346: the document json.dump writes
Document(rs) ==
    [ kind          |-> "complete",
      total_scripts |-> Len(rs),
      passed        |-> CountPassed(rs),
      failed        |-> CountFailed(rs),
      results       |-> rs ]

\* The file after open(results_file, 'w') truncated it.
TruncatedDocument == [NoDocument EXCEPT !.kind = "truncated"]
\* The file when json.dump stopped before the end of the document: nothing,
\* or a part of the text.
PartialDocument == [NoDocument EXCEPT !.kind = "partial"]

FreshProcess ==
    /\ pc = "main"
    /\ exitCode = << >>
    /\ script_files = << >>
    /\ task = << >>
    /\ proc = << >>
    /\ results = << >>
    /\ exitOrder = << >>
    /\ exitSeen = << >>
    /\ reported = ""

Init ==
    /\ scriptsDir \in Directories
    /\ fileContent = [f \in scriptsDir.files |-> InitialText(f)]
    /\ screenshotsDir = {}
    /\ document = NoDocument
    /\ runs = 1
    /\ FreshProcess
    /\ saved = << >>
    /\ patchTrace = << >>
    /\ environ = DefaultEnviron

Filesystem == << scriptsDir, fileContent, screenshotsDir, document >>
Tasks == << script_files, task, proc, results, exitOrder, exitSeen >>
Recorded == { results[i].script : i \in 1..Len(results) }
History == << saved, patchTrace >>

\* lines 398-409: the import check, then TestRunner()
MainImportError ==
    /\ pc = "main"
    /\ pc' = "exited"
    /\ exitCode' = << 1 >>
    /\ reported' = "Playwright not found"
    /\ UNCHANGED << Filesystem, Tasks, History, runs, environ >>

MainStart ==
    /\ pc = "main"
    /\ pc' = "browsers"
    /\ UNCHANGED << Filesystem, Tasks, History, runs, environ, exitCode, reported >>

\* lines 292-295
ensure_browsers_installed ==
    /\ pc = "browsers"
    /\ \E browsers_ready \in BOOLEAN :
          IF browsers_ready
          THEN pc' = "discover" /\ UNCHANGED reported
          ELSE pc' = "returned" /\ reported' = "Cannot proceed without browsers"
    /\ UNCHANGED << Filesystem, Tasks, History, runs, environ, exitCode >>

\* lines 298-316: discovery, and one coroutine per script file
Discover ==
    /\ pc = "discover"
    /\ IF ~scriptsDir.exists \/ GlobPy(scriptsDir.files) = {}
       THEN /\ pc' = "returned"
            /\ reported' = IF scriptsDir.exists THEN "No Python scripts found"
                           ELSE "Scripts directory does not exist"
            /\ UNCHANGED << script_files, task, proc >>
       ELSE /\ script_files' \in Orderings(GlobPy(scriptsDir.files))
            /\ reported' = "Found test scripts"
            /\ task' = [f \in GlobPy(scriptsDir.files) |-> "created"]
            /\ proc' = [f \in GlobPy(scriptsDir.files) |-> NoProc]
            /\ pc' = "gather"
    /\ UNCHANGED << Filesystem, History, runs, environ, exitCode, results, exitOrder,
                    exitSeen >>

\* gather starts the coroutines in the order of the list
Position(f) == CHOOSE i \in 1..Len(script_files) : script_files[i] = f
EarlierStarted(f) ==
    \A i \in 1..(Position(f) - 1) : task[script_files[i]] # "created"

\* lines 164-204, up to the first suspension: the patch, then the spawn.
\* A spawn that fails raises into the except branch (lines 257-281).
StartTask(f) ==
    /\ pc = "gather"
    /\ task[f] = "created"
    /\ EarlierStarted(f)
    /\ \E p \in ensure_headless_mode(fileContent[f]) :
          /\ fileContent' = [fileContent EXCEPT ![f] = p.content]
          /\ \/ /\ proc' = [proc EXCEPT ![f] =
                               [NoProc EXCEPT !.state = "running",
                                              !.text = p.content,
                                              !.env = ChildEnv(environ)]]
                /\ task' = [task EXCEPT ![f] = "communicate"]
                /\ UNCHANGED results
             \/ /\ AppendResult(ErrorResult(f, SpawnError))
                /\ task' = [task EXCEPT ![f] = "done"]
                /\ UNCHANGED proc
    /\ UNCHANGED << scriptsDir, screenshotsDir, document, History, runs, environ, pc,
                    exitCode, script_files, exitOrder, exitSeen, reported >>

\* The script under test writes a screenshot named after itself.
WriteArtifact(f) ==
    /\ pc = "gather"
    /\ proc[f].state = "running"
    /\ proc[f].writes < MaxWrites
    /\ \E step \in Steps, ts \in Timestamps, t \in Ticks(runs) :
          LET stem == ArtifactStem(f, step, ts) IN
          screenshotsDir' =
              { a \in screenshotsDir : a.stem # stem }
              \cup { [stem |-> stem, data |-> << f.stem, runs >>, mtime |-> t] }
    /\ proc' = [proc EXCEPT ![f].writes = @ + 1]
    /\ UNCHANGED << scriptsDir, fileContent, document, History, runs, environ, pc,
                    exitCode, script_files, task, results, exitOrder, exitSeen,
                    reported >>

\* The subprocess ends.
ProcExit(f) ==
    /\ pc = "gather"
    /\ proc[f].state = "running"
    /\ \E b \in Behaviours :
          proc' = [proc EXCEPT ![f].state = "exited",
                               ![f].returncode = b.returncode,
                               ![f].stdout = b.stdout,
                               ![f].stderr = b.stderr]
    /\ exitOrder' = Append(exitOrder, f)
    /\ exitSeen' = exitSeen @@ (f :> Recorded)
    /\ UNCHANGED << Filesystem, History, runs, environ, pc, exitCode, script_files,
                    task, results, reported >>

\* Mutant: communicate() returns while the subprocess still runs.
CommunicateReturnedEarly(f) == proc[f].state \in { "running", "exited" }

\* line 206: await process.communicate() returns when the pipes are at end
\* of file and the subprocess has exited
CommunicateReturned(f) == proc[f].state = "exited"

\* lines 206-235: communicate() returns, the output is decoded, the
\* screenshots are collected and the record is appended; a decode error
\* raises into the except branch. proc[f].skipped keeps the files line 147
\* reported as not processed.
Join(f) ==
    /\ pc = "gather"
    /\ task[f] = "communicate"
    /\ CommunicateReturned(f)
    /\ IF Undecodable \in { proc[f].stdout, proc[f].stderr }
       THEN /\ AppendResult(ErrorResult(f, DecodeError))
            /\ UNCHANGED proc
       ELSE \E readable \in SUBSET Matching(f.stem, screenshotsDir) :
               /\ \E screenshots \in SortedLists(readable) :
                     AppendResult(Result(f, proc[f].returncode, proc[f].stdout,
                                         proc[f].stderr, screenshots))
               /\ proc' = [proc EXCEPT ![f].skipped =
                              { file.stem : file \in
                                  Matching(f.stem, screenshotsDir) \ readable }]
    /\ task' = [task EXCEPT ![f] = "done"]
    /\ UNCHANGED << Filesystem, History, runs, environ, pc, exitCode, script_files,
                    exitOrder, exitSeen, reported >>

\* line 206 raises: the pipes of the subprocess cannot be read.
CommunicateFail(f) ==
    /\ pc = "gather"
    /\ task[f] = "communicate"
    /\ AppendResult(ErrorResult(f, CommunicateError))
    /\ task' = [task EXCEPT ![f] = "done"]
    /\ UNCHANGED << Filesystem, History, runs, environ, pc, exitCode, script_files,
                    proc, exitOrder, exitSeen, reported >>

\* lines 329-331: gather has returned; open(results_file, 'w')
SaveOpen ==
    /\ pc = "gather"
    /\ AllJoined
    /\ \/ /\ document' = TruncatedDocument
          /\ pc' = "dump"
          /\ UNCHANGED reported
       \/ /\ pc' = "summary"
          /\ reported' = "Error saving results"
          /\ UNCHANGED document
    /\ UNCHANGED << scriptsDir, fileContent, screenshotsDir, Tasks, History,
                    runs, environ, exitCode >>

\* Mutant: the error of json.dump is not caught; it reaches the handler of
\* main, which exits with status 1.
save_results_uncaught ==
    /\ pc = "dump"
    /\ \/ /\ document' = Document(results)
          /\ saved' = Append(saved, results)
          /\ reported' = "Results saved"
          /\ pc' = "summary"
          /\ UNCHANGED exitCode
       \/ /\ document' = PartialDocument
          /\ reported' = "Unexpected error"
          /\ pc' = "exited"
          /\ exitCode' = << 1 >>
          /\ UNCHANGED saved
    /\ UNCHANGED << scriptsDir, fileContent, screenshotsDir, Tasks, patchTrace,
                    runs, environ >>

\* lines 332-351: json.dump into the open file; an error is caught and
\* printed (lines 350-351)
save_results ==
    /\ pc = "dump"
    /\ \/ /\ document' = Document(results)
          /\ saved' = Append(saved, results)
          /\ reported' = "Results saved"
       \/ /\ document' = PartialDocument
          /\ reported' = "Error saving results"
          /\ UNCHANGED saved
    /\ pc' = "summary"
    /\ UNCHANGED << scriptsDir, fileContent, screenshotsDir, Tasks, patchTrace,
                    runs, environ, exitCode >>

\* Mutant: only records of status FAILED count as failed.
ExitStatusIgnoringErrors(rs) ==
    IF \E i \in 1..Len(rs) : rs[i].status = Failed THEN 1 ELSE 0

\* lines 358-359 and 385-390: the status print_summary passes to sys.exit
ExitStatus(rs) ==
    LET passed == CountPassed(rs)
        failed == Len(rs) - passed
    IN IF failed > 0 THEN 1 ELSE 0

\* lines 353-390
print_summary ==
    /\ pc = "summary"
    /\ reported' = "TEST EXECUTION SUMMARY"
    /\ exitCode' = << ExitStatus(results) >>
    /\ pc' = "exited"
    /\ UNCHANGED << Filesystem, Tasks, History, runs, environ >>

\* lines 412 and 422: run_all_scripts returned, main returns, the
\* interpreter exits with status 0
MainReturn ==
    /\ pc = "returned"
    /\ exitCode' = << 0 >>
    /\ pc' = "exited"
    /\ UNCHANGED << Filesystem, Tasks, History, runs, environ, reported >>

\* lines 413-415: the process is interrupted while the scripts run; what it
\* held in memory is gone with it.
KeyboardInterrupt ==
    /\ pc = "gather"
    /\ exitCode' = << 1 >>
    /\ pc' = "interrupted"
    /\ script_files' = << >>
    /\ task' = << >>
    /\ proc' = << >>
    /\ results' = << >>
    /\ exitOrder' = << >>
    /\ exitSeen' = << >>
    /\ reported' = "Test execution interrupted by user"
    /\ UNCHANGED << Filesystem, History, runs, environ >>

\* The controller is started again on the same directories.
NextRun ==
    /\ pc \in { "exited", "interrupted" }
    /\ runs < MaxRuns
    /\ runs' = runs + 1
    /\ pc' = "main"
    /\ exitCode' = << >>
    /\ script_files' = << >>
    /\ task' = << >>
    /\ proc' = << >>
    /\ results' = << >>
    /\ exitOrder' = << >>
    /\ exitSeen' = << >>
    /\ reported' = ""
    /\ UNCHANGED << Filesystem, History, environ >>

Run ==
    \/ MainImportError
    \/ MainStart
    \/ ensure_browsers_installed
    \/ Discover
    \/ \E f \in Discovered : StartTask(f)
    \/ \E f \in Discovered : WriteArtifact(f)
    \/ \E f \in Discovered : ProcExit(f)
    \/ \E f \in Discovered : Join(f)
    \/ \E f \in Discovered : CommunicateFail(f)
    \/ SaveOpen
    \/ save_results
    \/ print_summary
    \/ MainReturn
    \/ KeyboardInterrupt

\* One controller process.
Next == Run

Spec == Init /\ [][Next]_vars

\* Controller processes started one after the other on the same scripts,
\* screenshots and result document.
RunsInit ==
    /\ Init
    /\ scriptsDir.files \in { { Demo }, { Demo, Notes } }

RunsNext == Run \/ NextRun

RunsSpec == RunsInit /\ [][RunsNext]_vars

\* One controller process on one script, started in any environment.
EnvInit ==
    /\ scriptsDir = [exists |-> TRUE, files |-> { Demo }]
    /\ fileContent = [f \in { Demo } |-> InitialText(f)]
    /\ screenshotsDir = {}
    /\ document = NoDocument
    /\ runs = 1
    /\ FreshProcess
    /\ saved = << >>
    /\ patchTrace = << >>
    /\ environ \in Environments

EnvSpec == EnvInit /\ [][Next]_vars

---------------------------------------------------------------------------
(* The patch alone: ensure_headless_mode applied again and again to one    *)
(* script file, for every text of up to MaxLen fragments.                  *)

PatchInit ==
    /\ scriptsDir = [exists |-> TRUE, files |-> { Demo }]
    /\ \E text \in SeqsUpTo(AuthorFragments, MaxLen) :
          fileContent = [f \in { Demo } |-> text]
    /\ screenshotsDir = {}
    /\ document = NoDocument
    /\ runs = 1
    /\ FreshProcess
    /\ saved = << >>
    /\ patchTrace = << >>
    /\ environ = DefaultEnviron

\* One call of ensure_headless_mode(script_path); patchTrace keeps what the
\* call read and what it left in the file.
PatchFile(f) ==
    /\ Len(patchTrace) < MaxPatches
    /\ \E p \in ensure_headless_mode(fileContent[f]) :
          /\ fileContent' = [fileContent EXCEPT ![f] = p.content]
          /\ patchTrace' = Append(patchTrace,
                                  [read |-> fileContent[f], outcome |-> p.outcome,
                                   wrote |-> p.wrote, left |-> p.content])
    /\ UNCHANGED << scriptsDir, screenshotsDir, document, runs, environ, pc, exitCode,
                    Tasks, reported, saved >>

PatchNext == \E f \in scriptsDir.files : PatchFile(f)

PatchSpec == PatchInit /\ [][PatchNext]_vars

---------------------------------------------------------------------------
(* The harvest alone: collect_screenshots called on a screenshots          *)
(* directory that holds any of the files a script wrote under its name.    *)

\* The steps a script names its screenshots after, in lexical order
HarvestSteps == << "click", "load", "submit" >>

\* The files script f can have left: <script_name>_<step>_1200.png
ArtifactsOf(f) ==
    { [stem |-> ArtifactStem(f, << step >>, ts), data |-> << f.stem, 1 >>,
       mtime |-> t] :
      step \in Range(HarvestSteps), ts \in Timestamps, t \in Ticks(1) }

HarvestInit ==
    /\ \E f \in { Demo, DemoExtra } :
          /\ scriptsDir = [exists |-> TRUE, files |-> { f }]
          /\ fileContent = [g \in { f } |-> InitialText(g)]
          /\ screenshotsDir \in
                { S \in SUBSET ArtifactsOf(f) :
                    \A a, b \in S : a.stem = b.stem => a = b }
    /\ document = NoDocument
    /\ runs = 1
    /\ FreshProcess
    /\ saved = << >>
    /\ patchTrace = << >>
    /\ environ = DefaultEnviron

\* lines 216-235: one call of collect_screenshots(script_name), its list
\* kept in a record of the script
HarvestFiles(f) ==
    /\ Len(results) < MaxHarvests
    /\ \E screenshots \in collect_screenshots(f.stem, screenshotsDir) :
          AppendResult(Result(f, 0, "done", "", screenshots))
    /\ UNCHANGED << Filesystem, History, runs, environ, pc, exitCode, script_files,
                    task, proc, exitOrder, exitSeen, reported >>

HarvestNext == \E f \in scriptsDir.files : HarvestFiles(f)

HarvestSpec == HarvestInit /\ [][HarvestNext]_vars

---------------------------------------------------------------------------
(* Properties.                                                             *)

RecordsOf(f) == { i \in 1..Len(results) : results[i].script = f.stem }

\* gather has returned: every coroutine of a non-empty list has ended
RunJoined ==
    /\ pc \in { "gather", "dump", "summary", "exited" }
    /\ script_files # << >>
    /\ AllJoined

C2_ExitCode ==
    (pc = "exited" /\ script_files # << >>) =>
        /\ reported = "TEST EXECUTION SUMMARY"
        /\ exitCode \in { << 0 >>, << 1 >> }
        /\ exitCode = << 0 >> <=>
              \A f \in Discovered :
                 \E i \in RecordsOf(f) : results[i].success
        /\ (\E i \in 1..Len(results) : results[i].status \in { Failed, Error })
              => exitCode # << 0 >>

\* A run of two scripts exits nonzero: one passed, the other could not be
\* spawned or read.
C2_Witness ==
    /\ pc = "exited"
    /\ exitCode = << 1 >>
    /\ \E i, j \in 1..Len(results) :
          /\ results[i].status = Passed
          /\ results[j].status = Error
    /\ \A i \in 1..Len(results) : results[i].status # Failed

\* C3: when discovery finds no script in an existing scripts directory, the
\* controller exits nonzero, has spawned no script and has written no
\* results entry.
C3_EmptyDiscoveryExitsNonzero ==
    (pc = "exited" /\ reported = "No Python scripts found") =>
        /\ exitCode # << 0 >>
        /\ \A f \in DOMAIN proc : proc[f].state = "none"
        /\ document.results = << >>

\* C4: the patch is idempotent: a call of ensure_headless_mode on the file
\* an earlier call produced, when it completes, leaves the file as it read
\* it and writes nothing.
C4_PatchIdempotent ==
    \A n \in 2..Len(patchTrace) :
        ( /\ patchTrace[n - 1].outcome \in { "patched", "unchanged" }
          /\ patchTrace[n].outcome \in { "patched", "unchanged" } )
        => /\ patchTrace[n].left = patchTrace[n].read
           /\ ~patchTrace[n].wrote

\* The files the specification keeps out of discovery: the runner's own
\* entry file and the files named with the reserved prefix.
ReservedPrefix == << "runner" >>
Excluded(f) == IsPrefix(ReservedPrefix, f.stem)
Eligible(files) == { f \in GlobPy(files) : ~Excluded(f) }

\* C5: discovery yields exactly the eligible scripts of the directory; an
\* excluded file is never scheduled, patched or executed.
C5_DiscoveryExcludesReserved ==
    script_files # << >> =>
        /\ Discovered = Eligible(scriptsDir.files)
        /\ \A f \in DOMAIN task : ~Excluded(f)
        /\ \A f \in DOMAIN proc : Excluded(f) => proc[f].state = "none"

\* The exceptions of the spawn and of communicate()
SpawnOrCommunicate == { SpawnError, CommunicateError }

\* C6: a record is classified by the way the subprocess ended: return code
\* 0 gives success, another return code gives failure, and a failure to
\* spawn or to communicate gives an error, which differs from failure and
\* carries its cause.
C6_OutcomeClassification ==
    \A f \in Discovered : \A i \in RecordsOf(f) :
        LET r == results[i] IN
        IF r.error \in SpawnOrCommunicate
        THEN r.status = Error /\ r.status # Failed /\ r.stderr = r.error
             /\ r.error # ""
        ELSE /\ proc[f].state = "exited"
             /\ proc[f].returncode = 0 => r.status = Passed /\ r.success
             /\ proc[f].returncode # 0 => r.status = Failed /\ ~r.success

IndexOf(f) == CHOOSE i \in 1..Len(results) : results[i].script = f.stem

\* Both subprocesses exited and both tasks appended the record of a
\* subprocess that ran to its end.
BothRan(a, b) ==
    /\ a # b
    /\ RecordsOf(a) # {} /\ RecordsOf(b) # {}
    /\ results[IndexOf(a)].status # Error
    /\ results[IndexOf(b)].status # Error

WriterOf(entry) == entry.data[2][1]

\* C8: a screenshot written under the identity of one script appears in the
\* record of that script only, also when the name of one script is the
\* name of the other followed by "_" and more.
C8_ExclusiveAttribution ==
    \A i \in 1..Len(results) :
        \A k \in 1..Len(results[i].screenshots) :
            WriterOf(results[i].screenshots[k]) = results[i].script

\* The screenshot entries of a list of records, in order
RECURSIVE Screenshots(_)
Screenshots(rs) ==
    IF rs = << >> THEN << >>
    ELSE Head(rs).screenshots \o Screenshots(Tail(rs))

\* C9: after two runs saved to the same test_results.json, the document
\* holds the screenshot entries of the first run followed by those of the
\* second.
C9_MergeAcrossRuns ==
    (Len(saved) = 2 /\ document.kind = "complete") =>
        Screenshots(document.results)
            = Screenshots(saved[1]) \o Screenshots(saved[2])

\* C10: whoever opens test_results.json, at any moment, finds no document
\* yet or a complete one, never an empty or partly written file.
C10_AtomicPersistence == document.kind \in { "absent", "complete" }

\* The run goes on: the coroutines of this step are those of the next
SameRun == script_files' = script_files /\ script_files # << >>

\* The records of script f after the step
RecordsOfNext(f) == { i \in 1..Len(results') : results'[i].script = f.stem }

\* C11: every step of a run keeps each script's lifecycle in the order
\* patch, spawn, harvest, append, each at most once: a subprocess is spawned
\* only by a task that has not started, in the step that patches the file,
\* and runs the file as the patch left it; a spawned subprocess is never
\* spawned again and a started task never starts again; a record is added
\* only by a task that has not ended, which ends with it; and a record that
\* carries harvested screenshots is added only after the subprocess exited.
C11_LifecycleOrder ==
    [][SameRun => \A f \in Discovered :
        /\ task'[f] = "created" => task[f] = "created"
        /\ task[f] = "done" => task'[f] = "done"
        /\ (proc[f].state = "none" /\ proc'[f].state # "none") =>
              /\ task[f] = "created" /\ task'[f] = "communicate"
              /\ proc'[f].state = "running"
              /\ \E p \in ensure_headless_mode(fileContent[f]) :
                    fileContent'[f] = p.content /\ proc'[f].text = p.content
        /\ proc[f].state # "none" =>
              /\ proc'[f].state # "none"
              /\ proc'[f].text = proc[f].text
              /\ fileContent'[f] = fileContent[f]
        /\ proc[f].state = "exited" => proc'[f].state = "exited"
        /\ RecordsOfNext(f) # RecordsOf(f) =>
              /\ task[f] # "done" /\ task'[f] = "done"
              /\ RecordsOf(f) = {}
              /\ Cardinality(RecordsOfNext(f)) = 1
              /\ results'[Len(results')].script = f.stem
              /\ results'[Len(results')].error = NoError =>
                    /\ task[f] = "communicate"
                    /\ proc[f].state = "exited"
                    /\ results'[Len(results')].screenshots
                          \in collect_screenshots(f.stem, screenshotsDir)
    ]_vars

\* A script was patched and spawned, its subprocess wrote a screenshot and
\* exited, and the task collected the screenshot and appended the record.
C11_Witness ==
    \E f \in Discovered : \E i \in RecordsOf(f) :
        /\ task[f] = "done"
        /\ proc[f].state = "exited"
        /\ proc[f].text # InitialText(f)
        /\ results[i].error = NoError
        /\ results[i].screenshots # << >>

\* The outcomes a record can end with
TerminalOutcomes == { Passed, Failed, Error }

\* The scripts whose subprocess was spawned and has not exited
StillRunning == { f \in Discovered : proc[f].state = "running" }

\* C12: test_results.json is written at most once in a run, and only after
\* every per-script task has joined; the document on disk holds no record
\* of a script whose subprocess has not terminated, and every record in it
\* has a terminal outcome.
C12_PersistAfterJoin ==
    /\ Len(saved) <= 1
    /\ document.kind # "absent" =>
          /\ pc \in { "dump", "summary", "exited" }
          /\ AllJoined
    /\ \A i \in 1..Len(document.results) :
          /\ document.results[i].status \in TerminalOutcomes
          /\ \A f \in StillRunning : document.results[i].script # f.stem

\* The exceptions the lifecycle of a script can raise
ErrorCauses == { SpawnError, CommunicateError, DecodeError }

\* The record r of script f keeps what the script left: the output of the
\* subprocess that ran to its end, or the cause of the error.
KeepsOutputOrCause(f, r) ==
    IF r.status = Error
    THEN r.error \in ErrorCauses /\ r.stderr = r.error
    ELSE /\ proc[f].state = "exited"
         /\ r.return_code = proc[f].returncode
         /\ r.stdout = proc[f].stdout
         /\ r.stderr = proc[f].stderr

\* The next step of the lifecycle of script f can be taken.
CanProceed(f) ==
    /\ (task[f] = "created" /\ EarlierStarted(f)) => ENABLED StartTask(f)
    /\ proc[f].state = "running" => ENABLED ProcExit(f)
    /\ (task[f] = "communicate" /\ proc[f].state = "exited") => ENABLED Join(f)

\* C13: when the record of a script is a failure or an error, the record
\* keeps the output of the subprocess or the cause of the error, every
\* other script of the run can still take the next step of its lifecycle
\* while the tasks run, and has its own record, with its own outcome, once
\* all tasks joined.
C13_FailureIsolation ==
    \A a \in Discovered : \A i \in RecordsOf(a) :
        ~results[i].success =>
            /\ KeepsOutputOrCause(a, results[i])
            /\ \A b \in Discovered \ { a } :
                  /\ pc = "gather" => CanProceed(b)
                  /\ RunJoined =>
                        /\ Cardinality(RecordsOf(b)) = 1
                        /\ KeepsOutputOrCause(b, results[IndexOf(b)])

\* The script started first could not be spawned, the one started after it
\* ran to its end and passed, and the controller has exited.
C13_Witness ==
    /\ pc = "exited"
    /\ \E a, b \in Discovered :
          /\ Position(a) < Position(b)
          /\ RecordsOf(a) # {} /\ RecordsOf(b) # {}
          /\ results[IndexOf(a)].error = SpawnError
          /\ results[IndexOf(b)].status = Passed

\* The task of script f waits in communicate() for a subprocess that runs.
Waiting(f) == task[f] = "communicate" /\ proc[f].state = "running"

\* C14: while the task of one script waits for a subprocess that has not
\* exited, the controller is still in gather: it has written no document
\* and has not exited; and every other script can take the next step of
\* its lifecycle, up to the append of its record.
C14_HungScriptBlocksOwnSlot ==
    \A a \in Discovered :
        Waiting(a) =>
            /\ pc = "gather"
            /\ exitCode = << >>
            /\ document = NoDocument
            /\ saved = << >>
            /\ \A b \in Discovered \ { a } : CanProceed(b)

\* One script's subprocess still runs and its task waits, while the other
\* script, discovered after it, ran to its end and has its record.
C14_Witness ==
    \E a, b \in Discovered :
        /\ Waiting(a)
        /\ Position(a) < Position(b)
        /\ task[b] = "done"
        /\ proc[b].state = "exited"
        /\ \E i \in RecordsOf(b) : results[i].error = NoError

\* The segments of the file names of the model, in the order of str
Lexical == << "1200", "click", "demo", "extra", "load", "step1", "submit" >>
Rank(segment) == CHOOSE i \in 1..Len(Lexical) : Lexical[i] = segment

\* filename a sorts before filename b
RECURSIVE FilenameBefore(_, _)
FilenameBefore(a, b) ==
    IF a = << >> THEN b # << >>
    ELSE IF b = << >> THEN FALSE
    ELSE IF Head(a) = Head(b) THEN FilenameBefore(Tail(a), Tail(b))
    ELSE Rank(Head(a)) < Rank(Head(b))

\* C15: the list collect_screenshots returns is in ascending order of
\* modification time, files of equal time in the lexical order of their
\* names, and its k-th entry carries the sequence number k.
C15_ArtifactOrder ==
    \A i \in 1..Len(results) :
        LET q == results[i].screenshots IN
        /\ \A j, k \in 1..Len(q) :
              j < k =>
                 \/ q[j].timestamp < q[k].timestamp
                 \/ /\ q[j].timestamp = q[k].timestamp
                    /\ FilenameBefore(q[j].filename, q[k].filename)
        /\ \A k \in 1..Len(q) :
              /\ "sequence" \in DOMAIN q[k]
              /\ q[k].sequence = k

\* The <step> of the file name <identity>_<step>_<suffix>
StepOf(identity, filename) ==
    SubSeq(filename, Len(identity) + 1, Len(filename) - 1)

\* C16: the step label of every harvested entry is the part of its file
\* name between the identity of the script and the trailing suffix, also
\* for a script whose identity contains "_".
C16_StepLabel ==
    \A i \in 1..Len(results) :
        \A k \in 1..Len(results[i].screenshots) :
            LET entry == results[i].screenshots[k] IN
            entry.step_name = StepOf(results[i].script, entry.filename)

\* What the file of script f holds when the patch did all or nothing
WholeTexts(f) == { InitialText(f), PatchedContent(InitialText(f)) }

\* C17: whatever happens to the read and the write of the patch, the task
\* goes on to spawn the subprocess, and the file it runs is the script as
\* its author left it or as the completed patch rewrote it, never a
\* truncated or partly written file.
C17_PatchFailureNonFatal ==
    \A f \in Discovered :
        /\ (pc = "gather" /\ task[f] = "created" /\ EarlierStarted(f))
              => ENABLED StartTask(f)
        /\ fileContent[f] \in WholeTexts(f)
        /\ proc[f].state # "none" => proc[f].text \in WholeTexts(f)

\* The scripts ran and test_results.json could not be opened or written.
SaveFailed ==
    /\ pc \in { "summary", "exited" }
    /\ script_files # << >>
    /\ document.kind # "complete"

\* C18: when test_results.json cannot be written, the error is printed,
\* the controller goes on to the summary, and it exits with status 0 when
\* every record is a success and with a nonzero status otherwise.
C18_SaveFailureStillExits ==
    SaveFailed =>
        /\ pc = "summary" =>
              /\ reported = "Error saving results"
              /\ exitCode = << >>
              /\ ENABLED print_summary
        /\ pc = "exited" =>
              /\ reported = "TEST EXECUTION SUMMARY"
              /\ exitCode \in { << 0 >>, << 1 >> }
              /\ exitCode = << 0 >> <=>
                    \A i \in 1..Len(results) : results[i].status = Passed

\* json.dump failed part way, the summary was printed and the controller
\* exited with status 0 because the script passed.
C18_Witness ==
    /\ pc = "exited"
    /\ document.kind = "partial"
    /\ reported = "TEST EXECUTION SUMMARY"
    /\ exitCode = << 0 >>
    /\ Len(results) > 0

\* The patch changes the text read.
Changes(text) == PatchedContent(text) # text

\* C19: a call of ensure_headless_mode opens the file for writing only when
\* the patched content differs from the content read; a call that completes
\* has written the file exactly when the two differ, and then the file
\* holds the patched content; a file the patch does not change is never
\* opened for writing and keeps the content it had.
C19_WriteIffChanged ==
    \A n \in 1..Len(patchTrace) :
        LET call == patchTrace[n] IN
        /\ call.wrote => Changes(call.read)
        /\ call.outcome \in { "patched", "unchanged" } =>
              /\ call.wrote <=> Changes(call.read)
              /\ call.left = PatchedContent(call.read)
        /\ ~Changes(call.read) =>
              /\ call.outcome \in { "unchanged", "read_failed" }
              /\ ~call.wrote
              /\ call.left = call.read

\* A first call rewrote the file and a second call, reading a text the
\* patch does not change, left it alone.
C19_Witness ==
    /\ Len(patchTrace) = 2
    /\ patchTrace[1].outcome = "patched"
    /\ patchTrace[1].wrote
    /\ patchTrace[1].left # patchTrace[1].read
    /\ patchTrace[2].outcome = "unchanged"
    /\ ~patchTrace[2].wrote
    /\ patchTrace[2].left = patchTrace[1].left

\* C20: the environment of a spawned subprocess holds every variable of
\* the controller's environment with the value it has there, HOME and
\* PLAYWRIGHT_BROWSERS_PATH included, and besides these only the overrides
\* HOME and PLAYWRIGHT_BROWSERS_PATH.
C20_EnvPassedUnchanged ==
    \A f \in Discovered :
        proc[f].state # "none" =>
            /\ \A v \in DOMAIN environ :
                  v \in DOMAIN proc[f].env /\ proc[f].env[v] = environ[v]
            /\ DOMAIN proc[f].env \ DOMAIN environ
                  \subseteq { "HOME", "PLAYWRIGHT_BROWSERS_PATH" }

\* The files of the screenshots directory under the prefix of a script
PresentFor(script_name) ==
    { file \in screenshotsDir : MatchesGlob(script_name, file.stem) }

\* The entries of record i, as a set
Harvested(i) == Range(results[i].screenshots)

\* C21 as claimed: the record of a script that ran to its end holds an
\* entry for every file under the prefix of the script that is in the
\* screenshots directory, whichever run wrote it.
C21_HarvestsAllPresent ==
    \A i \in 1..Len(results) :
        results[i].error = NoError =>
            Harvested(i)
                = { ScreenshotEntry(file) : file \in PresentFor(results[i].script) }

\* The record of a script that ran to its end holds an entry for every
\* file under its prefix except those reported as not processed.
HarvestedAllReadable ==
    \A f \in Discovered : \A i \in RecordsOf(f) :
        results[i].error = NoError =>
            Harvested(i)
                = { ScreenshotEntry(file) :
                    file \in { a \in PresentFor(f.stem) :
                                 a.stem \notin proc[f].skipped } }

\* C21 as amended: no step removes a file of the screenshots directory,
\* and the directory changes only when a running subprocess writes, never
\* in a step of the controller; so after every step the record of a
\* script that ran to its end holds the files under its prefix, those of
\* earlier runs included, except the files that could not be read.
C21_HarvestKeepsFiles ==
    [][ /\ \A a \in screenshotsDir : \E b \in screenshotsDir' : b.stem = a.stem
        /\ screenshotsDir' # screenshotsDir =>
              /\ results' = results /\ task' = task /\ pc' = pc
              /\ \E f \in Discovered : proc[f].state = "running"
        /\ HarvestedAllReadable'
    ]_vars

\* In the second run the script wrote nothing, and its record holds the
\* screenshot the first run left.
C21_Witness ==
    /\ runs = 2
    /\ \E f \in Discovered : \E i \in RecordsOf(f) :
          /\ proc[f].writes = 0
          /\ proc[f].skipped = {}
          /\ results[i].error = NoError
          /\ results[i].screenshots # << >>
          /\ \A k \in 1..Len(results[i].screenshots) :
                results[i].screenshots[k].data[2][2] = 1

=============================================================================
